---- MODULE Spec2Model ----
(***************************************************************************)
(* AsyncBroadcaster (src/src/index.ts): one upstream async iterable is     *)
(* drained into a shared buffer; every generator returned by _values()     *)
(* reads the buffer through its own index and waits on a shared promise    *)
(* when it has caught up.                                                  *)
(*                                                                         *)
(* JavaScript runs each synchronous stretch of code to completion, so one  *)
(* action is one such stretch: from the point a task is resumed to the     *)
(* next await / yield / return.  A consumer drives its generator the way   *)
(* a for await loop does: one next() at a time, and return() only after a  *)
(* value.  Upstream yields the values 1, 2, 3, ... so that a repeated, a   *)
(* skipped or a stale value shows.                                         *)
(***************************************************************************)
EXTENDS Naturals, Integers, Sequences, FiniteSets, TLC

(* ---- bounds ---- *)
MaxValues == 2          \* values the upstream iterable yields at most
MaxGens == 2            \* generator objects obtained from broadcaster.iterable

Gens == 1..MaxGens

(* ---- JavaScript values ---- *)
Undefined == 0          \* undefined: no promise, no resolver, a hole in the buffer
Infinity == 1000000     \* Math.min() of no arguments

VARIABLES
    buffer,             \* _buffer
    nextGeneratorID,    \* _nextGeneratorID
    indices,            \* _indices : Map id -> index
    nextValue,          \* _nextValue : the promise (its name), or Undefined
    resolveNextValue,   \* _resolveNextValue : the promise it resolves, or Undefined
    promises,           \* how many promises line 63 has made
    resolved,           \* the promises of line 63 that have been resolved
    upstream,           \* the iterable given to the constructor
    produced,           \* every value upstream has yielded, in order
    pc,                 \* state of each generator object
    id,                 \* const id of each generator (line 51), -1 before
    signal,             \* options.signal of each generator
    waitingOn,          \* promise passed to waitOrAbort (line 67)
    waitState,          \* state of the promise waitOrAbort returned
    received,           \* values the running generator has yielded so far
    joinAt,             \* Len(produced) when the running generator registered
    calledAt,           \* Len(produced) when the not yet started generator was made
    exit                \* where the completed generator ended

vars == <<buffer, nextGeneratorID, indices, nextValue, resolveNextValue,
          promises, resolved, upstream, produced, pc, id, signal, waitingOn,
          waitState, received, joinAt, calledAt, exit>>

bvars == <<buffer, nextGeneratorID, indices, nextValue, resolveNextValue,
           promises, resolved>>
uvars == <<upstream, produced>>

(* ---- pure helpers ---- *)
Range(f) == {f[x] : x \in DOMAIN f}

\* a trim that takes the largest index for the smallest
MathMax(S) == IF S = {} THEN Infinity ELSE CHOOSE m \in S : \A n \in S : n <= m

\* a minimum that is 0 when there are no values
MathMinZero(S) == IF S = {} THEN 0 ELSE CHOOSE m \in S : \A n \in S : m <= n

\* Math.min(...values): Infinity when there are no values
MathMin(S) == IF S = {} THEN Infinity ELSE CHOOSE m \in S : \A n \in S : m <= n

\* a splice that keeps one element too many
SpliceShort(buf, n) == SubSeq(buf, n, Len(buf))

\* array.splice(0, n): drop the first n elements (all of them when n >= length)
Splice(buf, n) == SubSeq(buf, n + 1, Len(buf))

\* a delete that removes some other entry when the key is not there
MapDeleteAny(m, k) ==
    IF k \in DOMAIN m \/ DOMAIN m = {}
    THEN [j \in DOMAIN m \ {k} |-> m[j]]
    ELSE [j \in DOMAIN m \ {CHOOSE x \in DOMAIN m : TRUE} |-> m[j]]

\* Map.delete(key)
MapDelete(m, k) == [j \in DOMAIN m \ {k} |-> m[j]]

\* Map.set(key, value)
MapSet(m, k, v) == [j \in DOMAIN m \cup {k} |-> IF j = k THEN v ELSE m[j]]

\* a rebase by one whatever the number of values removed
RebaseByOne(n, minIndex) == n - 1

\* line 105: this._indices.set(i, n - minIndex)
Rebase(n, minIndex) == n - minIndex

\* a trim that removes values and leaves the cursors as they were
TrimNoRebase(buf, idx) ==
    LET minIndex == MathMin(Range(idx)) IN
    IF minIndex > 0
    THEN [buffer |-> Splice(buf, minIndex), indices |-> idx]
    ELSE [buffer |-> buf, indices |-> idx]

\* _trim(): the new buffer and the new indices
Trim(buf, idx) ==
    LET minIndex == MathMin(Range(idx)) IN
    IF minIndex > 0
    THEN [buffer |-> Splice(buf, minIndex),
          indices |-> [i \in DOMAIN idx |-> Rebase(idx[i], minIndex)]]
    ELSE [buffer |-> buf, indices |-> idx]

\* a cleanup that trims without deleting the entry
CleanupKeep(buf, idx, i) == Trim(buf, idx)

\* _cleanup(id)
Cleanup(buf, idx, i) == Trim(buf, MapDelete(idx, i))

\* a read of the newest value, whatever the index
BufferAtLast(buf, index) == IF Len(buf) > 0 THEN buf[Len(buf)] ELSE Undefined

\* this._buffer[index], index counted from 0
BufferAt(buf, index) ==
    IF index >= 0 /\ index < Len(buf) THEN buf[index + 1] ELSE Undefined

\* a generator that starts at the front of the buffer
StartIndexZero(buf) == 0

\* line 55: the index a generator registers with
StartIndex(buf) == Len(buf)

\* a loop that does not look at the signal
LoopAlways(s) == TRUE

\* line 58: while (signal?.aborted !== true); a generator made without a
\* signal is one whose signal never fires
LoopCondition(s) == s # "aborted"

\* a wake-up that does not look at the signal
AbortedIgnored(s) == FALSE

\* line 69: if (signal?.aborted)
AbortedAfterWait(s) == s = "aborted"

Init ==
    /\ buffer = <<>>
    /\ nextGeneratorID = 0
    /\ indices = <<>>
    /\ nextValue = Undefined
    /\ resolveNextValue = Undefined
    /\ promises = 0
    /\ resolved = {}
    /\ upstream \in {"open", "absent"}
    /\ produced = <<>>
    /\ pc = [g \in Gens |-> "unborn"]
    /\ id = [g \in Gens |-> -1]
    /\ signal = [g \in Gens |-> "live"]
    /\ waitingOn = [g \in Gens |-> Undefined]
    /\ waitState = [g \in Gens |-> "none"]
    /\ received = [g \in Gens |-> <<>>]
    /\ joinAt = [g \in Gens |-> 0]
    /\ calledAt = [g \in Gens |-> 0]
    /\ exit = [g \in Gens |-> "none"]

(* ---- the ingestion loop, _pushAll ---- *)
UpstreamHasValue == upstream = "open" /\ Len(produced) < MaxValues

\* an ingestion loop that waits until every generator has caught up
PushGuardBackpressure ==
    UpstreamHasValue /\ \A i \in DOMAIN indices : indices[i] = Len(buffer)

\* an ingestion loop that goes on after upstream has thrown
PushGuardIgnoresError ==
    upstream \in {"open", "error"} /\ Len(produced) < MaxValues

\* one turn of `for await (const v of iterable)` waits for upstream only
PushGuard == UpstreamHasValue

\* an append that clears the promise without resolving it
PushForgets == resolved

\* line 39: the promises resolved once the loop body has run
PushResolved == IF resolveNextValue # Undefined
                THEN resolved \cup {resolveNextValue} ELSE resolved

\* an append that leaves the resolved promise in place
KeptNextValue == nextValue

\* line 40: what _nextValue and _resolveNextValue are set to
ClearedNextValue == Undefined

\* upstream yields its next value v: the loop body, lines 37-40
Push ==
    /\ PushGuard
    /\ LET v == Len(produced) + 1 IN
       /\ produced' = Append(produced, v)
       /\ buffer' = Append(buffer, v)
    /\ resolved' = PushResolved
    /\ nextValue' = ClearedNextValue
    /\ resolveNextValue' = ClearedNextValue
    /\ UNCHANGED <<nextGeneratorID, indices, promises, upstream, pc, id, signal,
                   waitingOn, waitState, received, joinAt, calledAt, exit>>

\* upstream completes: the for await loop ends and _pushAll returns
UpstreamEnd ==
    /\ upstream = "open"
    /\ upstream' = "done"
    /\ UNCHANGED <<bvars, produced, pc, id, signal, waitingOn, waitState,
                   received, joinAt, calledAt, exit>>

\* upstream throws: the for await loop rethrows and _pushAll rejects
UpstreamError ==
    /\ upstream = "open"
    /\ upstream' = "error"
    /\ UNCHANGED <<bvars, produced, pc, id, signal, waitingOn, waitState,
                   received, joinAt, calledAt, exit>>

(* ---- the generator, _values ---- *)

\* iterable[Symbol.asyncIterator]() or iterable.values({signal}): the
\* generator object is made, its body has not started; s tells whether the
\* signal passed in has fired already.  Objects are made in the order of
\* their names.
Create(g, s) ==
    /\ pc[g] = "unborn"
    /\ \A h \in Gens : h < g => pc[h] # "unborn"
    /\ pc' = [pc EXCEPT ![g] = "suspendedStart"]
    /\ signal' = [signal EXCEPT ![g] = s]
    /\ calledAt' = [calledAt EXCEPT ![g] = Len(produced)]
    /\ UNCHANGED <<bvars, uvars, id, waitingOn, waitState, received, joinAt,
                   exit>>

\* lines 84-88 (after 69-71 when the wait was aborted; the second _cleanup
\* then starts from what the first left): the generator ends.  A completed
\* generator yields nothing more, and its history is dropped.
Finish(g, i, idx) ==
    LET t1 == Cleanup(buffer, idx, i)
        t == IF pc[g] = "awaiting" THEN Cleanup(t1.buffer, t1.indices, i) ELSE t1 IN
    /\ buffer' = t.buffer
    /\ indices' = t.indices
    /\ pc' = [pc EXCEPT ![g] = "completed"]
    /\ waitState' = [waitState EXCEPT ![g] = "none"]
    /\ waitingOn' = [waitingOn EXCEPT ![g] = Undefined]
    /\ received' = [received EXCEPT ![g] = <<>>]
    /\ joinAt' = [joinAt EXCEPT ![g] = 0]
    /\ exit' = [exit EXCEPT ![g] = pc[g]]
    /\ UNCHANGED <<nextValue, resolveNextValue, promises, resolved>>

\* a wait that makes a promise of its own every time
NoNextValueIgnored == TRUE

\* line 63: the test of `this._nextValue ??= ...`
NoNextValue == nextValue = Undefined

\* lines 62-67: at the end of the buffer, make the promise if there is none
\* and await waitOrAbort(this._nextValue).  Promises are numbered as they
\* are made.
Wait(g) ==
    /\ IF NoNextValue
       THEN /\ promises' = promises + 1
            /\ nextValue' = promises + 1
            /\ resolveNextValue' = promises + 1
       ELSE UNCHANGED <<promises, nextValue, resolveNextValue>>
    /\ waitingOn' = [waitingOn EXCEPT ![g] = nextValue']
    /\ waitState' = [waitState EXCEPT ![g] = "pending"]
    /\ pc' = [pc EXCEPT ![g] = "awaiting"]
    /\ UNCHANGED <<buffer, resolved, received, exit>>

\* lines 79-82: read the value at index, advance, trim, yield
Take(g, index) ==
    LET v == BufferAt(buffer, index)
        t == Trim(buffer, MapSet(indices, id[g], index + 1)) IN
    /\ buffer' = t.buffer
    /\ indices' = t.indices
    /\ received' = [received EXCEPT ![g] = Append(@, v)]
    /\ pc' = [pc EXCEPT ![g] = "suspendedYield"]
    /\ waitState' = [waitState EXCEPT ![g] = "none"]
    /\ waitingOn' = [waitingOn EXCEPT ![g] = Undefined]
    /\ UNCHANGED <<nextValue, resolveNextValue, promises, resolved, joinAt, exit>>

\* an identity counter that is read and not advanced
NextIDStuck(n) == n

\* line 51: this._nextGeneratorID++
NextID(n) == n + 1

\* the first next(): lines 50-58, then the first turn of the loop, where
\* index === this._buffer.length holds unless line 55 set something else.
\* Generator objects differ in nothing but their names, so they are named
\* in the order in which they start.
Start(g) ==
    /\ pc[g] = "suspendedStart"
    /\ \A h \in Gens : h < g => pc[h] \notin {"unborn", "suspendedStart"}
    /\ id' = [id EXCEPT ![g] = nextGeneratorID]
    /\ nextGeneratorID' = NextID(nextGeneratorID)
    /\ calledAt' = [calledAt EXCEPT ![g] = 0]
    /\ LET idx == MapSet(indices, nextGeneratorID, StartIndex(buffer)) IN
       IF LoopCondition(signal[g])
       THEN /\ joinAt' = [joinAt EXCEPT ![g] = Len(produced)]
            /\ IF idx[nextGeneratorID] = Len(buffer)
               THEN /\ indices' = idx
                    /\ Wait(g)
               ELSE LET v == BufferAt(buffer, idx[nextGeneratorID])
                        t == Trim(buffer, MapSet(idx, nextGeneratorID,
                                                 idx[nextGeneratorID] + 1)) IN
                    /\ buffer' = t.buffer
                    /\ indices' = t.indices
                    /\ received' = [received EXCEPT ![g] = Append(@, v)]
                    /\ pc' = [pc EXCEPT ![g] = "suspendedYield"]
                    /\ UNCHANGED <<nextValue, resolveNextValue, promises,
                                   resolved, waitState, waitingOn, exit>>
       ELSE Finish(g, nextGeneratorID, idx)
    /\ UNCHANGED <<uvars, signal>>

\* a later next(): the generator resumes after the yield of line 82
Pull(g) ==
    /\ pc[g] = "suspendedYield"
    /\ IF LoopCondition(signal[g])
       THEN LET index == indices[id[g]] IN
            IF index = Len(buffer)
            THEN Wait(g) /\ UNCHANGED <<indices, joinAt>>
            ELSE Take(g, index)
       ELSE Finish(g, id[g], indices)
    /\ UNCHANGED <<uvars, nextGeneratorID, id, signal, calledAt>>

\* line 121: waitOrAbort's async executor resumes from `await v` and resolves
\* the promise it returned (no effect if abort rejected it first)
Settle(g) ==
    /\ pc[g] = "awaiting"
    /\ waitState[g] = "pending"
    /\ waitingOn[g] \in resolved
    /\ waitState' = [waitState EXCEPT ![g] = "resolved"]
    /\ UNCHANGED <<bvars, uvars, pc, id, signal, waitingOn, received, joinAt,
                   calledAt, exit>>

\* the generator resumes from the await of line 67: lines 68-82 when the
\* promise was resolved, 68-71 and 84-88 when it was rejected
Resume(g) ==
    /\ pc[g] = "awaiting"
    /\ waitState[g] \in {"resolved", "rejected"}
    /\ IF waitState[g] = "rejected" \/ AbortedAfterWait(signal[g])
       THEN Finish(g, id[g], indices)
       ELSE Take(g, indices[id[g]])
    /\ UNCHANGED <<uvars, nextGeneratorID, id, signal, calledAt>>

\* the consumer leaves its for await loop (break, return or throw): the
\* generator's return() runs the finally of lines 84-88
Break(g) ==
    /\ pc[g] = "suspendedYield"
    /\ Finish(g, id[g], indices)
    /\ UNCHANGED <<uvars, nextGeneratorID, id, signal, calledAt>>

\* the generator's AbortSignal fires: the listener of line 116 rejects the
\* promise of the latest waitOrAbort call, which has an effect only if that
\* promise is still pending (none after the generator has completed)
Abort(g) ==
    /\ signal[g] = "live"
    /\ pc[g] \notin {"unborn", "completed"}
    /\ signal' = [signal EXCEPT ![g] = "aborted"]
    /\ waitState' = [waitState EXCEPT ![g] =
                        IF pc[g] = "awaiting" /\ @ = "pending" THEN "rejected" ELSE @]
    /\ UNCHANGED <<bvars, uvars, pc, id, waitingOn, received, joinAt, calledAt,
                   exit>>

Next ==
    \/ Push
    \/ UpstreamEnd
    \/ UpstreamError
    \/ \E g \in Gens, s \in {"live", "aborted"} : Create(g, s)
    \/ \E g \in Gens : Start(g)
    \/ \E g \in Gens : Pull(g)
    \/ \E g \in Gens : Settle(g)
    \/ \E g \in Gens : Resume(g)
    \/ \E g \in Gens : Break(g)
    \/ \E g \in Gens : Abort(g)

Spec == Init /\ [][Next]_vars

\* The event loop runs every queued continuation (Settle, Resume); a consumer
\* that keeps pulling calls next() again (Start, Pull).  Nothing obliges
\* upstream to yield, a consumer to break, or a signal to fire.
FairSpec ==
    /\ Spec
    /\ \A g \in Gens : WF_vars(Settle(g)) /\ WF_vars(Resume(g))
    /\ \A g \in Gens : WF_vars(Start(g)) /\ WF_vars(Pull(g))

(* ======================= properties ======================= *)

\* the generator is inside its loop: started and not completed
Listening(g) == pc[g] \in {"awaiting", "suspendedYield"}

\* the generator has an entry in _indices
Registered(g) == id[g] \in DOMAIN indices

IsPrefix(s, t) == Len(s) <= Len(t) /\ SubSeq(t, 1, Len(s)) = s

\* the values appended since g registered
AppendedSince(g) == SubSeq(produced, joinAt[g] + 1, Len(produced))

\* how many of them g has not been given yet
Unread(g) == Len(produced) - joinAt[g] - Len(received[g])

Max(S) == CHOOSE m \in S : \A n \in S : n <= m

\* C1: what a generator has yielded so far is a prefix of the values
\* appended since it registered, in upstream order: nothing twice, nothing
\* skipped, nothing older.
C1_Ordering ==
    \A g \in Gens : Listening(g) => IsPrefix(received[g], AppendedSince(g))

C1_Witness ==
    \E g, h \in Gens :
        /\ Listening(g) /\ Listening(h)
        /\ joinAt[g] = 0 /\ received[g] = produced /\ Len(produced) >= 2
        /\ Len(received[h]) = 1

\* C2: a generator that registered after N values never yields one of
\* them: all it has yielded is newer, the first is value N+1, and the value
\* under its cursor is the next new one however many older values still
\* sit in the buffer below it.
C2_LateJoin ==
    \A g \in Gens : Listening(g) =>
        /\ \A k \in DOMAIN received[g] : received[g][k] > joinAt[g]
        /\ received[g] # <<>> => received[g][1] = joinAt[g] + 1
        /\ Registered(g) /\ indices[id[g]] < Len(buffer) =>
              BufferAt(buffer, indices[id[g]]) = joinAt[g] + Len(received[g]) + 1

\* a late joiner woken by the first new value, older values still below it
C2_Witness ==
    \E g \in Gens :
        /\ pc[g] = "awaiting" /\ waitState[g] = "resolved"
        /\ joinAt[g] >= 1 /\ received[g] = <<>>
        /\ indices[id[g]] >= 1 /\ indices[id[g]] < Len(buffer)

\* C3: every value a registered generator has not been given yet is still
\* in the buffer, from its cursor on, whatever the others have done.
C3_NoUnreadDiscarded ==
    \A g \in Gens : Listening(g) =>
        /\ Registered(g)
        /\ indices[id[g]] >= 0 /\ indices[id[g]] <= Len(buffer)
        /\ Unread(g) >= 0
        /\ SubSeq(buffer, indices[id[g]] + 1, Len(buffer))
              = SubSeq(produced, Len(produced) - Unread(g) + 1, Len(produced))

\* a slow generator with a backlog after a faster one has gone ahead and left
C3_Witness ==
    \E g, h \in Gens :
        /\ g # h /\ pc[h] = "completed" /\ id[h] >= 0 /\ id[g] >= 0
        /\ pc[g] = "suspendedYield" /\ Unread(g) >= 1

\* C4: the step in which a consumer leaves (the generator goes from its
\* yield to completed) removes the entry and trims, so that the smallest
\* remaining cursor is 0; no completed generator has an entry, and when all
\* generators have completed the registry is empty.
C4_CleanupOnExit ==
    [][ /\ \A g \in Gens : pc[g] = "suspendedYield" /\ pc'[g] = "completed" =>
              /\ id[g] \notin DOMAIN indices'
              /\ DOMAIN indices' # {} => MathMin(Range(indices')) = 0
        /\ \A g \in Gens : pc'[g] = "completed" => id'[g] \notin DOMAIN indices'
        /\ (\A g \in Gens : pc'[g] = "completed") => DOMAIN indices' = {} ]_vars

\* a consumer has broken out (its signal never fired) and another remains
C4_Witness ==
    \E g, h \in Gens :
        /\ pc[g] = "completed" /\ id[g] >= 0 /\ signal[g] = "live"
        /\ Listening(h) /\ Unread(h) >= 1

\* C5: once a generator's signal has fired, the generator yields nothing.
C5_NothingAfterAbort ==
    [][ \A g \in Gens : signal[g] = "aborted" =>
            Len(received'[g]) <= Len(received[g]) ]_vars

\* the append and the abort race: woken, not yet resumed, signal fired,
\* the new value in the buffer
C5_Witness ==
    \E g \in Gens :
        /\ signal[g] = "aborted" /\ pc[g] = "awaiting"
        /\ waitState[g] = "resolved" /\ Unread(g) >= 1

\* C6 (as claimed): a generator whose signal has fired keeps no entry,
\* except for the moment between the abort and the resumption it queued.
C6_CancelRemovesEntry ==
    \A g \in Gens : signal[g] = "aborted" /\ pc[g] = "suspendedYield" =>
        ~Registered(g)

\* C7 (as claimed): once upstream has ended, every generator that was
\* registered while upstream was still yielding completes.
C7_Completion ==
    \A g \in Gens :
        (upstream = "done" /\ Registered(g) /\ joinAt[g] < Len(produced))
            ~> (pc[g] = "completed")

\* the registered generators, and the backlog of the slowest
RegisteredGens == {g \in Gens : Registered(g)}
Slowest == Max({Unread(g) : g \in RegisteredGens})

Reclaimed ==
    DOMAIN indices # {} =>
        /\ MathMin(Range(indices)) = 0
        /\ Len(buffer) = Slowest

\* C8 (as claimed): whenever a generator is registered the smallest cursor
\* is 0 and the buffer holds exactly the backlog of the slowest.
C8_Reclaimed == Reclaimed

\* a step in which _trim has run: a cursor advance or a generator's end
TrimRan ==
    \E g \in Gens :
        \/ Len(received'[g]) > Len(received[g])
        \/ pc[g] # "completed" /\ pc'[g] = "completed"

\* C8 (amended): every trim leaves the buffer reclaimed, and it stays so
\* for as long as a generator is registered.
C8_ReclaimedAfterTrim ==
    [][ /\ TrimRan => Reclaimed'
        /\ (Reclaimed /\ DOMAIN indices # {} /\ DOMAIN indices' # {}) => Reclaimed' ]_vars

\* values have been dropped from the front while a generator has a backlog
C8_Witness ==
    /\ DOMAIN indices # {}
    /\ MathMin(Range(indices)) = 0
    /\ Len(buffer) >= 1
    /\ Len(buffer) < Len(produced)
    /\ Cardinality(DOMAIN indices) >= 2

\* C9: under fair scheduling a generator in its loop is eventually given
\* every value appended since it registered (it catches up with upstream,
\* which yields finitely many values here), unless its consumer leaves or
\* its signal fires; and an append resolves the promise of every generator
\* blocked on it.
C9_Delivery ==
    /\ \A g \in Gens :
          Listening(g) ~> (~Listening(g) \/ signal[g] = "aborted" \/ Unread(g) = 0)
    /\ [][ Len(produced') > Len(produced) =>
             \A g \in Gens : pc[g] = "awaiting" /\ waitState[g] = "pending" =>
                 waitingOn[g] \in resolved' ]_vars

\* two generators that blocked, were woken and were given every value
C9_Witness ==
    /\ Len(produced) >= 2
    /\ \A g \in Gens : Listening(g) /\ joinAt[g] = 0 /\ received[g] = produced

\* C10: whenever upstream has a value to give, the append can happen.
C10_NoBackpressure == UpstreamHasValue => ENABLED Push

\* upstream has a value while one generator has a backlog and another is
\* blocked
C10_Witness ==
    /\ UpstreamHasValue
    /\ \E g, h \in Gens :
          /\ Listening(g) /\ Unread(g) >= 1
          /\ pc[h] = "awaiting" /\ waitState[h] = "pending"

\* what a generator has not been given yet is in the buffer from its cursor on
BacklogInBuffer(g) ==
    /\ Registered(g)
    /\ indices[id[g]] >= 0 /\ indices[id[g]] <= Len(buffer)
    /\ Unread(g) >= 0
    /\ SubSeq(buffer, indices[id[g]] + 1, Len(buffer))
          = SubSeq(produced, Len(produced) - Unread(g) + 1, Len(produced))

\* C11: once upstream has thrown nothing is appended again; the throw
\* itself ends no generator, changes no entry and no buffered value; and
\* each generator still has its backlog in the buffer and can pull it.
C11_UpstreamError ==
    /\ [](upstream = "error" =>
            \A g \in Gens : Listening(g) =>
                /\ BacklogInBuffer(g)
                /\ pc[g] = "suspendedYield" => ENABLED Pull(g))
    /\ [][ /\ upstream = "error" => upstream' = "error" /\ produced' = produced
           /\ (upstream # "error" /\ upstream' = "error") =>
                 UNCHANGED <<buffer, indices, pc, received, waitState, waitingOn,
                             nextValue, resolveNextValue>> ]_vars

\* upstream has thrown while a generator has a backlog
C11_Witness ==
    /\ upstream = "error"
    /\ \E g \in Gens :
          pc[g] = "suspendedYield" /\ Len(received[g]) >= 1 /\ Unread(g) >= 1

\* C12 (as claimed): a generator is registered from the call that made it:
\* when it starts it is owed every value appended since that call.
C12_RegisteredAtCall ==
    [][ \A g \in Gens :
          (pc[g] = "suspendedStart" /\ pc'[g] \in {"awaiting", "suspendedYield"}) =>
              joinAt'[g] = calledAt[g] ]_vars

\* C13 (as claimed): a step that leaves the registry empty removes nothing
\* from the buffer.
C13_EmptyTrimNoOp ==
    [][ DOMAIN indices' = {} => Len(buffer') >= Len(buffer) ]_vars

\* C13 (amended): a trim over an empty registry empties the buffer; and
\* values leave the buffer only from its front and only in a trim.
C13_EmptyTrimClears ==
    [][ /\ (TrimRan /\ DOMAIN indices' = {}) => buffer' = <<>>
        /\ Len(buffer') < Len(buffer) =>
              /\ TrimRan
              /\ buffer' = SubSeq(buffer, Len(buffer) - Len(buffer') + 1, Len(buffer))
      ]_vars

\* the only generator ever started ended at once on a fired signal, and the
\* values appended before are gone
C13_Witness ==
    /\ nextGeneratorID = 1
    /\ \E g \in Gens : exit[g] = "suspendedStart"
    /\ produced # <<>>
    /\ buffer = <<>>

\* the number of values removed from the front of the buffer so far
Trimmed == Len(produced) - Len(buffer)

\* C14: every registered cursor is between 0 and the buffer length; the
\* absolute position of a cursor (values trimmed so far plus the cursor)
\* never decreases; and a cursor gets smaller only in a step whose trim
\* removed values.
C14_CursorInvariant ==
    /\ [](/\ Trimmed >= 0
          /\ buffer = SubSeq(produced, Trimmed + 1, Len(produced))
          /\ \A i \in DOMAIN indices : 0 <= indices[i] /\ indices[i] <= Len(buffer))
    /\ [][ \A i \in DOMAIN indices \cap DOMAIN indices' :
              /\ Trimmed' + indices'[i] >= Trimmed + indices[i]
              /\ indices'[i] < indices[i] => (TrimRan /\ Trimmed' > Trimmed) ]_vars

\* two generators registered before a value was appended have both been
\* given it: the cursor of the first to take it went to 1 and was rebased
\* to 0 by the trim of the second
C14_Witness ==
    \E g, h \in Gens :
        /\ g # h /\ Listening(g) /\ Listening(h)
        /\ joinAt[g] = joinAt[h]
        /\ Len(received[g]) = 1 /\ Len(received[h]) = 1
        /\ indices[id[g]] = 0 /\ indices[id[h]] = 0

\* C15: a generator that the pending promise woke, and whose signal has
\* not fired, finds its cursor below the buffer length, and the value at
\* its cursor is the first one appended after it began to wait.
C15_WokenFindsValue ==
    \A g \in Gens :
        (/\ pc[g] = "awaiting"
         /\ waitingOn[g] \in resolved
         /\ waitState[g] # "rejected"
         /\ ~AbortedAfterWait(signal[g])) =>
            /\ Registered(g)
            /\ indices[id[g]] < Len(buffer)
            /\ BufferAt(buffer, indices[id[g]]) = joinAt[g] + Len(received[g]) + 1

\* a generator woken from its second wait, about to resume, beside another
\* running generator
C15_Witness ==
    \E g, h \in Gens :
        /\ g # h /\ Listening(h)
        /\ pc[g] = "awaiting" /\ waitState[g] = "resolved"
        /\ signal[g] = "live"
        /\ Len(received[g]) >= 1

\* the promises made by line 63 and not resolved yet
Outstanding == (1..promises) \ resolved

\* a generator blocked in the wait of line 67
Blocked(g) ==
    pc[g] = "awaiting" /\ waitState[g] = "pending" /\ waitingOn[g] \notin resolved

\* C16: at most one promise is outstanding, it is the one the fields hold,
\* and every blocked generator waits on it; a promise is made only by a
\* caught-up generator beginning to wait when none is outstanding; every
\* append resolves the outstanding promise and leaves none.
C16_PendingDiscipline ==
    /\ [](/\ Cardinality(Outstanding) <= 1
          /\ nextValue = resolveNextValue
          /\ Outstanding = IF nextValue = Undefined THEN {} ELSE {nextValue}
          /\ \A g \in Gens : Blocked(g) => waitingOn[g] = nextValue)
    /\ [][ /\ promises' # promises =>
                /\ promises' = promises + 1
                /\ Outstanding = {} /\ Outstanding' = {promises'}
                /\ \E g \in Gens :
                      /\ pc[g] # "awaiting" /\ Blocked(g)'
                      /\ waitingOn'[g] = promises'
                      /\ indices'[id'[g]] = Len(buffer')
           /\ Len(produced') > Len(produced) =>
                /\ Outstanding \subseteq resolved'
                /\ Outstanding' = {}
                /\ nextValue' = Undefined /\ resolveNextValue' = Undefined ]_vars

\* two generators blocked on one promise, which is not the first one made
C16_Witness ==
    \E g, h \in Gens :
        /\ g # h /\ Blocked(g) /\ Blocked(h)
        /\ waitingOn[g] = waitingOn[h]
        /\ waitingOn[g] = nextValue
        /\ promises >= 2

\* what the entry i of idx has before it in buf: the values from its cursor on
View(buf, idx, i) == SubSeq(buf, idx[i] + 1, Len(buf))

\* the cursor maps on which a step from the current state can run _trim:
\* after a cursor advance (line 80) and after a delete (line 93)
TrimInputs ==
    {MapSet(indices, id[g], indices[id[g]] + 1) :
        g \in {h \in Gens : Listening(h) /\ Registered(h)
                              /\ indices[id[h]] < Len(buffer)}}
    \cup {MapDelete(indices, i) : i \in DOMAIN indices}

\* _trim on buf and idx removes the first m values, rebases every cursor by
\* m and leaves every view and the set of entries as they were
TrimPreservesView(buf, idx) ==
    LET m == MathMin(Range(idx))
        t == Trim(buf, idx) IN
    /\ DOMAIN t.indices = DOMAIN idx
    /\ m > 0 => /\ Len(t.buffer) = Len(buf) - m
                /\ \A k \in 1..Len(t.buffer) : t.buffer[k] = buf[k + m]
                /\ \A i \in DOMAIN idx : t.indices[i] = idx[i] - m
    /\ m = 0 => t.buffer = buf /\ t.indices = idx
    /\ \A i \in DOMAIN idx : View(t.buffer, t.indices, i) = View(buf, idx, i)

\* C17: a trim over a registry that is not empty, with minimum cursor m,
\* removes exactly the first m values and subtracts m from every cursor
\* (nothing when m = 0), so every entry's view is the same before and
\* after; it changes neither the set of entries nor the pending promise.
\* In a step in which _trim runs an entry's view is unchanged, or has lost
\* its first value when the step advanced that entry's cursor.
C17_TrimPreservesView ==
    /\ [](\A idx \in TrimInputs : idx # <<>> => TrimPreservesView(buffer, idx))
    /\ [][ TrimRan =>
             /\ UNCHANGED <<nextValue, resolveNextValue, resolved, promises>>
             /\ \A i \in DOMAIN indices \cap DOMAIN indices' :
                   \/ View(buffer', indices', i) = View(buffer, indices, i)
                   \/ /\ View(buffer, indices, i) # <<>>
                      /\ View(buffer', indices', i) = Tail(View(buffer, indices, i))
         ]_vars

\* a trim is about to remove values and rebase two cursors, one of them
\* above the minimum
C17_Witness ==
    \E idx \in TrimInputs :
        /\ Cardinality(DOMAIN idx) >= 2
        /\ MathMin(Range(idx)) >= 1
        /\ \E i \in DOMAIN idx : idx[i] > MathMin(Range(idx))

\* C18: the identity counter never decreases, every identity handed out is
\* below it, no two generators, running or completed, have the same
\* identity, and the end of a generator, with one cleanup or two, removes
\* no other entry and moves no other cursor.
C18_UniqueIds ==
    /\ [](/\ \A g \in Gens : id[g] < nextGeneratorID
          /\ \A g, h \in Gens : (g # h /\ id[g] >= 0 /\ id[h] >= 0) => id[g] # id[h]
          /\ \A i \in DOMAIN indices : \E g \in Gens : id[g] = i /\ pc[g] # "completed")
    /\ [][ /\ nextGeneratorID' >= nextGeneratorID
           /\ \A g \in Gens :
                (pc[g] # "completed" /\ pc'[g] = "completed") =>
                    \A i \in DOMAIN indices \ {id'[g]} :
                        /\ i \in DOMAIN indices'
                        /\ Trimmed' + indices'[i] = Trimmed + indices[i] ]_vars

\* a generator has ended on the path that cleans up twice while a later
\* one stays registered
C18_Witness ==
    \E g, h \in Gens :
        /\ exit[g] = "awaiting"
        /\ Registered(h)
        /\ id[h] > id[g] /\ id[g] >= 0

\* C19: for a generator in its wait, a second _cleanup of its identity
\* leaves the buffer and the registry as the first left them, and the step
\* in which it ends on that path leaves exactly what one cleanup leaves.
C19_CleanupIdempotent ==
    /\ [](\A g \in Gens :
            pc[g] = "awaiting" =>
                LET first == Cleanup(buffer, indices, id[g])
                    second == Cleanup(first.buffer, first.indices, id[g]) IN
                second = first)
    /\ [][ \A g \in Gens :
             (pc[g] = "awaiting" /\ pc'[g] = "completed") =>
                 /\ buffer' = Cleanup(buffer, indices, id[g]).buffer
                 /\ indices' = Cleanup(buffer, indices, id[g]).indices ]_vars

\* a generator has ended on the path that cleans up twice, and another
\* generator still has its backlog
C19_Witness ==
    \E g, h \in Gens :
        /\ exit[g] = "awaiting"
        /\ Listening(h) /\ Registered(h)
        /\ Unread(h) >= 1 /\ buffer # <<>>

\* C20: the first pull of a generator whose signal has already fired ends
\* it in that step: it yields nothing, its identity is in no entry after
\* the step, and the other entries keep their cursors' positions.
C20_AlreadyAborted ==
    /\ [](\A g \in Gens : exit[g] = "suspendedStart" =>
              pc[g] = "completed" /\ ~Registered(g) /\ received[g] = <<>>)
    /\ [][ \A g \in Gens :
             (pc[g] = "suspendedStart" /\ signal[g] = "aborted" /\ pc'[g] # pc[g]) =>
                 /\ pc'[g] = "completed"
                 /\ exit'[g] = "suspendedStart"
                 /\ received'[g] = <<>>
                 /\ id'[g] \notin DOMAIN indices'
                 /\ DOMAIN indices' = DOMAIN indices
                 /\ \A i \in DOMAIN indices :
                       Trimmed' + indices'[i] = Trimmed + indices[i] ]_vars

\* a generator ended at its first pull on a fired signal while the buffer
\* held a value another generator has not read
C20_Witness ==
    \E g, h \in Gens :
        /\ exit[g] = "suspendedStart"
        /\ Listening(h) /\ Unread(h) >= 1
        /\ buffer # <<>>

====
